---- MODULE Spec2Model ----
(***************************************************************************)
(* A ledger of accounts (Account.py) and a proof-of-work chain             *)
(* (Blockchain.py).  Accounts sign transactions; the Blockchain admits     *)
(* them into a pending pool, settles them into mined blocks and can        *)
(* re-validate the whole chain.  Block.py is not part of the sources: the  *)
(* Block record, hash_block and mining follow the written specification.   *)
(* SHA-256 and RSA-PSS are taken as ideal: a digest determines its input,  *)
(* and a signature verifies only under the key that made it, for the       *)
(* digest it was made of.                                                  *)
(***************************************************************************)
EXTENDS Integers, Sequences, FiniteSets, TLC

\* ---------------------------------------------------------------- bounds
MaxBal == 2        \* initial balances range over 0..MaxBal
MaxVal == 2        \* transaction values range over 1..MaxVal
MaxNonce == 2      \* create_transaction calls per account
MaxPending == 2    \* length of the pending pool
MaxChain == 3      \* blocks in the chain, genesis included
HashSpace == 2     \* int(hash, 16) ranges over 0..HashSpace-1
MaxBatch == 3      \* transactions of a pool that is given whole

\* The Account objects (each with its own key pair); an Account's id names it.
\* A transaction names another account as its receiver.
Accts == {"A", "B"}
Values == 1..MaxVal
Targets == 0..HashSpace
InitialTarget == 1 \* the hash_target the Blockchain is constructed with

VARIABLES
    balance,          \* Account._balance, per Account object
    initial_balance,  \* Account._initial_balance
    nonce,            \* Account._nonce
    accounts,         \* Blockchain._accounts: the ids registered (id -> that Account)
    pending,          \* Blockchain._pending_transactions
    chain,            \* Blockchain._chain
    hash_target,      \* Blockchain._hash_target
    held,             \* transactions returned by create_transaction, kept by the caller
    last,             \* the last call: its name, what it returned, the transactions
                      \* it was given (create_new_block: the pending batch)
    mining,           \* TRUE once a Block constructor searches nonces without end
    tamperedAt        \* chain position edited from outside the ledger, 0 if none

vars == <<balance, initial_balance, nonce, accounts, pending, chain, hash_target,
          held, last, mining, tamperedAt>>

\* ------------------------------------------------------- signature codec
\* json.dumps(message, sort_keys=True): the fields in sorted key order.
Canonical(message) ==
    <<message.nonce, message.receiver, message.sender, message.tx_metadata, message.value>>

\* hashlib.sha256(...).hexdigest(), collision-free.
Sha256(bytes) == [sha256 |-> bytes]

\* The private key of an Account and the public key the registry holds for an id.
PrivateKey(a) == [key |-> a]
PublicKey(id) == [key |-> id]

\* private_key.sign(digest, PSS, SHA256): bytes only the key's owner can produce
\* for this digest (the PSS salt does not affect validity).
Sign(private_key, digest) == [signer |-> private_key.key, over |-> digest]

\* base64.b64encode(bytes).decode(): the canonical text of the bytes.
B64Encode(bytes) == [bytes |-> bytes, extra |-> 0]

\* base64.b64decode(text): characters outside the alphabet (extra) are discarded.
B64Decode(text) == text.bytes

\* public_key.verify(signature, digest, PSS, SHA256): TRUE, or InvalidSignature.
Verify(public_key, signature_bytes, digest) ==
    /\ signature_bytes.signer = public_key.key
    /\ signature_bytes.over = digest

\* (C7) the message built with the nonce the account already used.
MessageStaleNonce(a, receiver_id, value, tx_metadata) ==
    [sender |-> a, receiver |-> receiver_id, value |-> value,
     tx_metadata |-> tx_metadata, nonce |-> nonce[a]]

\* Account.create_transaction: the message and the transaction it returns.
Message(a, receiver_id, value, tx_metadata) ==
    [sender |-> a, receiver |-> receiver_id, value |-> value,
     tx_metadata |-> tx_metadata, nonce |-> nonce[a] + 1]

SignedBy(a, message) ==
    [message |-> message,
     signature |-> B64Encode(Sign(PrivateKey(a), Sha256(Canonical(message))))]

\* ------------------------------------------------------------------ Block
GenesisPrevious ==
    [literal |-> "The Times 03/Jan/2009 Chancellor on brink of second bailout for banks"]

\* Block.hash_block(): the digest of (index, transactions, previous hash, nonce).
HashOf(index, transactions, previous_block_hash, block_nonce) ==
    [index |-> index, transactions |-> transactions,
     previous_block_hash |-> previous_block_hash, nonce |-> block_nonce]

hash_block(block) ==
    HashOf(block.index, block.transactions, block.previous_block_hash, block.nonce)

\* int(hash, 16)
HashInt(h) == (h.index + Len(h.transactions) + h.nonce) % HashSpace

\* The nonce search of the Block constructor: the nonces that satisfy the target.
\* HashInt has period HashSpace in the nonce, so a search that finds nothing in
\* 0..HashSpace-1 never ends.
GoodNonces(index, transactions, previous_block_hash, target) ==
    {n \in 0..(HashSpace - 1) :
        HashInt(HashOf(index, transactions, previous_block_hash, n)) < target}

Min(S) == CHOOSE x \in S : \A y \in S : x <= y

MinedBlock(index, transactions, previous_block_hash, target) ==
    LET n == Min(GoodNonces(index, transactions, previous_block_hash, target))
    IN [index |-> index, transactions |-> transactions,
        previous_block_hash |-> previous_block_hash, hash_target |-> target,
        nonce |-> n,
        block_hash |-> HashOf(index, transactions, previous_block_hash, n)]

\* Blockchain.__create_genesis_block
GenesisBlock ==
    [index |-> 0, transactions |-> <<>>, previous_block_hash |-> GenesisPrevious,
     hash_target |-> "None", nonce |-> 0,
     block_hash |-> HashOf(0, <<>>, GenesisPrevious, 0)]

\* -------------------------------------------------------------- admission
\* Blockchain.__validate_transaction: "True", "False", or "raise" when the
\* lookup of an unregistered sender yields None and .public_key is read from it.
ValidateTransaction(transaction) ==
    LET message_hash == Sha256(Canonical(transaction.message))
        signature == B64Decode(transaction.signature)
        sender == transaction.message.sender
    IN IF sender \notin accounts THEN "raise"
       ELSE IF Verify(PublicKey(sender), signature, message_hash) THEN "True"
       ELSE "False"

\* ------------------------------------------------------------- settlement
ZeroDict == [id \in Accts |-> 0]

\* (C8) the balance test of line 99 off by one.
InsufficientBalanceOffByOne(sender_balance, value) == sender_balance < value - 1

\* Blockchain.__process_transactions, line 99 and line 105
InsufficientBalance(sender_balance, value) == sender_balance < value
Diminishing(sender_balance, net) == sender_balance < net

RECURSIVE ProcessLoop(_, _, _)
ProcessLoop(transactions, i, transaction_dict) ==
    IF i > Len(transactions) THEN [ok |-> TRUE, dict |-> transaction_dict]
    ELSE LET m == transactions[i].message
             sender == m.sender
             receiver == m.receiver
             value == m.value
         IN IF sender \notin accounts THEN [ok |-> FALSE, dict |-> transaction_dict]
            ELSE IF receiver \notin accounts THEN [ok |-> FALSE, dict |-> transaction_dict]
            ELSE IF InsufficientBalance(balance[sender], value)
                 THEN [ok |-> FALSE, dict |-> transaction_dict]
            ELSE LET d == [transaction_dict EXCEPT ![sender] = @ - value]
                 IN IF Diminishing(balance[sender], d[sender])
                    THEN [ok |-> FALSE, dict |-> d]
                    ELSE ProcessLoop(transactions, i + 1, [d EXCEPT ![receiver] = @ + value])

ProcessTransactions(transactions) == ProcessLoop(transactions, 1, ZeroDict)

\* Blockchain.__process_valid_transactions: a rejected transaction is skipped;
\* the decrement of line 161 stays in the table when line 162 rejects.
RECURSIVE ProcessValidLoop(_, _, _, _)
ProcessValidLoop(transactions, i, transaction_dict, valid_transactions) ==
    IF i > Len(transactions) THEN [valid |-> valid_transactions, dict |-> transaction_dict]
    ELSE LET m == transactions[i].message
             sender == m.sender
             receiver == m.receiver
             value == m.value
         IN IF sender \notin accounts
            THEN ProcessValidLoop(transactions, i + 1, transaction_dict, valid_transactions)
            ELSE IF receiver \notin accounts
            THEN ProcessValidLoop(transactions, i + 1, transaction_dict, valid_transactions)
            ELSE IF InsufficientBalance(balance[sender], value)
            THEN ProcessValidLoop(transactions, i + 1, transaction_dict, valid_transactions)
            ELSE LET d == [transaction_dict EXCEPT ![sender] = @ - value]
                 IN IF Diminishing(balance[sender], d[sender])
                    THEN ProcessValidLoop(transactions, i + 1, d, valid_transactions)
                    ELSE ProcessValidLoop(transactions, i + 1,
                                          [d EXCEPT ![receiver] = @ + value],
                                          Append(valid_transactions, transactions[i]))

ProcessValidTransactions(transactions) == ProcessValidLoop(transactions, 1, ZeroDict, <<>>)

\* The commit loops (lines 116-118, 178-180): increase_balance per table entry.
Commit(transaction_dict) == [a \in Accts |-> balance[a] + transaction_dict[a]]

\* (C16) an attempt that commits the table it built before it returns False.
SettleAfterPartialCommit(transactions) ==
    LET fast == ProcessTransactions(transactions)
        slow == ProcessValidTransactions(transactions)
    IN IF fast.ok
       THEN [path |-> "all", transactions |-> transactions, balance |-> Commit(fast.dict)]
       ELSE [path |-> "valid", transactions |-> slow.valid,
             balance |-> [a \in Accts |-> balance[a] + fast.dict[a] + slow.dict[a]]]

\* The settlement of create_new_block (lines 186-190): the all-or-nothing attempt,
\* and the fallback when it returns False (it has committed nothing then).
Settle(transactions) ==
    LET fast == ProcessTransactions(transactions)
        slow == ProcessValidTransactions(transactions)
    IN IF fast.ok
       THEN [path |-> "all", transactions |-> transactions, balance |-> Commit(fast.dict)]
       ELSE [path |-> "valid", transactions |-> slow.valid, balance |-> Commit(slow.dict)]

\* ------------------------------------------------------------- validation
\* Blockchain.__validate_chain_hash_integrity
ValidateChainHashIntegrity ==
    LET nblocks == Len(chain)
    IN IF nblocks < 2 THEN TRUE
       ELSE \A index \in 0..(nblocks - 2) :
                hash_block(chain[index + 1]) = chain[index + 2].previous_block_hash

\* (C10) the stored hash compared with the target only, not recomputed.
ValidateBlockHashTargetStoredOnly ==
    \A k \in 1..Len(chain) :
        LET block == chain[k]
        IN \/ block.index = 0
           \/ ~(HashInt(block.block_hash) >= block.hash_target)

\* (C13) the block hash compared with the ledger's current target, not the stored one.
ValidateBlockHashTargetCurrent ==
    \A k \in 1..Len(chain) :
        LET block == chain[k]
        IN \/ block.index = 0
           \/ /\ hash_block(block) = block.block_hash
              /\ ~(HashInt(block.block_hash) >= hash_target)

\* Blockchain.__validate_block_hash_target
ValidateBlockHashTarget ==
    \A k \in 1..Len(chain) :
        LET block == chain[k]
        IN \/ block.index = 0
           \/ /\ hash_block(block) = block.block_hash
              /\ ~(HashInt(block.block_hash) >= block.hash_target)

\* sorted(seq, key=...): a stable insertion sort.
RECURSIVE InsertByNonce(_, _)
InsertByNonce(sorted, m) ==
    IF sorted = <<>> THEN <<m>>
    ELSE IF sorted[Len(sorted)].nonce <= m.nonce THEN Append(sorted, m)
    ELSE Append(InsertByNonce(SubSeq(sorted, 1, Len(sorted) - 1), m), sorted[Len(sorted)])

RECURSIVE SortByNonce(_)
SortByNonce(messages) ==
    IF messages = <<>> THEN <<>>
    ELSE InsertByNonce(SortByNonce(SubSeq(messages, 1, Len(messages) - 1)),
                       messages[Len(messages)])

RECURSIVE InsertByIndex(_, _)
InsertByIndex(sorted, b) ==
    IF sorted = <<>> THEN <<b>>
    ELSE IF sorted[Len(sorted)].index <= b.index THEN Append(sorted, b)
    ELSE Append(InsertByIndex(SubSeq(sorted, 1, Len(sorted) - 1), b), sorted[Len(sorted)])

RECURSIVE SortByIndex(_)
SortByIndex(blocks) ==
    IF blocks = <<>> THEN <<>>
    ELSE InsertByIndex(SortByIndex(SubSeq(blocks, 1, Len(blocks) - 1)), blocks[Len(blocks)])

Messages(transactions) == [k \in 1..Len(transactions) |-> transactions[k].message]

\* The transaction messages in the order lines 279-282 visit them.
RECURSIVE ReplayOrder(_)
ReplayOrder(blocks) ==
    IF blocks = <<>> THEN <<>>
    ELSE SortByNonce(Messages(blocks[1].transactions)) \o ReplayOrder(Tail(blocks))

\* Lines 282-290: credit the receiver, debit the sender, fail on a negative sender.
RECURSIVE ReplayLoop(_, _, _)
ReplayLoop(messages, i, account_balance) ==
    IF i > Len(messages) THEN TRUE
    ELSE LET m == messages[i]
             b1 == [account_balance EXCEPT ![m.receiver] = @ + m.value]
             b2 == [b1 EXCEPT ![m.sender] = @ - m.value]
         IN IF b2[m.sender] < 0 THEN FALSE
            ELSE ReplayLoop(messages, i + 1, b2)

\* (C18) the replay started from the live balances.
ValidateCompleteAccountBalancesFromLive ==
    ReplayLoop(ReplayOrder(SortByIndex(chain)), 1,
               [id \in Accts |-> IF id \in accounts THEN balance[id] ELSE 0])

\* Blockchain.__validate_complete_account_balances
ValidateCompleteAccountBalances ==
    ReplayLoop(ReplayOrder(SortByIndex(chain)), 1,
               [id \in Accts |-> IF id \in accounts THEN initial_balance[id] ELSE 0])

\* Blockchain.validate_blockchain
ValidateBlockchainResult ==
    IF ~ValidateChainHashIntegrity THEN FALSE
    ELSE IF ~ValidateBlockHashTarget THEN FALSE
    ELSE IF ~ValidateCompleteAccountBalances THEN FALSE
    ELSE TRUE

\* ================================================================ actions
Bool(b) == IF b THEN "True" ELSE "False"

Call(op, ret, arg) == [op |-> op, ret |-> ret, arg |-> arg]

\* Account(id, balance) for each Account object, then Blockchain(hash_target).
Init ==
    /\ initial_balance \in [Accts -> 0..MaxBal]
    /\ balance = initial_balance
    /\ nonce = [a \in Accts |-> 0]
    /\ accounts = {}
    /\ pending = <<>>
    /\ chain = <<GenesisBlock>>
    /\ hash_target = InitialTarget
    /\ held = {}
    /\ last = Call("init", "None", <<>>)
    /\ mining = FALSE
    /\ tamperedAt = 0

\* Blockchain.add_account
AddAccount(a) ==
    /\ ~mining /\ tamperedAt = 0
    /\ accounts' = accounts \cup {a}
    /\ last' = Call("add_account", "None", <<>>)
    /\ UNCHANGED <<balance, initial_balance, nonce, pending, chain, hash_target,
                   held, mining, tamperedAt>>

\* Blockchain.hash_target setter
SetHashTarget(t) ==
    /\ ~mining /\ tamperedAt = 0
    /\ hash_target' = t
    /\ last' = Call("hash_target", "None", <<>>)
    /\ UNCHANGED <<balance, initial_balance, nonce, accounts, pending, chain,
                   held, mining, tamperedAt>>

\* Account.create_transaction
CreateTransaction(a, receiver_id, value) ==
    /\ ~mining /\ tamperedAt = 0
    /\ nonce[a] < MaxNonce
    /\ LET transaction == SignedBy(a, Message(a, receiver_id, value, ""))
       IN /\ nonce' = [nonce EXCEPT ![a] = transaction.message.nonce]
          /\ held' = held \cup {transaction}
          /\ last' = Call("create_transaction", "transaction", <<transaction>>)
    /\ UNCHANGED <<balance, initial_balance, accounts, pending, chain, hash_target,
                   mining, tamperedAt>>

\* Blockchain.add_transaction
AddTransactionCall(transaction) ==
    /\ ~mining /\ tamperedAt = 0
    /\ Len(pending) < MaxPending
    /\ LET r == ValidateTransaction(transaction)
       IN /\ pending' = IF r = "True" THEN Append(pending, transaction) ELSE pending
          /\ last' = Call("add_transaction", r, <<transaction>>)
    /\ UNCHANGED <<balance, initial_balance, nonce, accounts, chain, hash_target,
                   held, mining, tamperedAt>>

AddTransaction == \E transaction \in held : AddTransactionCall(transaction)

\* What a caller can make of a transaction it holds without the sender's private
\* key: one message field changed, the signature of another account's key over
\* the same message, signature bytes that no key produced, and the signature
\* text with characters added that b64decode discards.
Forgeries(t) ==
    {[t EXCEPT !.message.value = v] : v \in Values \ {t.message.value}}
    \cup {[t EXCEPT !.message.receiver = r] : r \in Accts \ {t.message.receiver}}
    \cup {[t EXCEPT !.message.sender = x] : x \in Accts \ {t.message.sender}}
    \cup {[t EXCEPT !.message.nonce = @ + 1]}
    \cup {[t EXCEPT !.message.tx_metadata = "x"]}
    \cup {[t EXCEPT !.signature =
                B64Encode(Sign(PrivateKey(k), Sha256(Canonical(t.message))))] :
            k \in Accts \ {t.message.sender}}
    \cup {[t EXCEPT !.signature.bytes.signer = "nobody"]}
    \cup {[t EXCEPT !.signature.extra = 1]}

\* Blockchain.add_transaction, given a transaction that was changed after signing
AddForged == \E t \in held : \E transaction \in Forgeries(t) : AddTransactionCall(transaction)

\* (C11) create_new_block that puts the transactions it rejected back in the pool.
CreateNewBlockRequeues ==
    /\ ~mining /\ tamperedAt = 0
    /\ Len(chain) < MaxChain
    /\ LET settled == Settle(pending)
           index == Len(chain)
           previous == chain[Len(chain)].block_hash
           sealed(t) == \E i \in 1..Len(settled.transactions) : settled.transactions[i] = t
           rejected(t) == ~sealed(t)
       IN /\ balance' = settled.balance
          /\ GoodNonces(index, settled.transactions, previous, hash_target) # {}
          /\ chain' = Append(chain, MinedBlock(index, settled.transactions,
                                               previous, hash_target))
          /\ pending' = SelectSeq(pending, rejected)
          /\ last' = Call("create_new_block", settled.path, pending)
    /\ UNCHANGED <<initial_balance, nonce, accounts, hash_target, held, mining, tamperedAt>>

\* (C17) create_new_block that links every block to the genesis block.
CreateNewBlockLinksGenesis ==
    /\ ~mining /\ tamperedAt = 0
    /\ Len(chain) < MaxChain
    /\ LET settled == Settle(pending)
           index == Len(chain)
           previous == chain[1].block_hash
       IN /\ balance' = settled.balance
          /\ IF GoodNonces(index, settled.transactions, previous, hash_target) = {}
             THEN /\ mining' = TRUE
                  /\ last' = Call("create_new_block", "never returns", pending)
                  /\ UNCHANGED <<chain, pending>>
             ELSE /\ chain' = Append(chain, MinedBlock(index, settled.transactions,
                                                      previous, hash_target))
                  /\ pending' = <<>>
                  /\ last' = Call("create_new_block", settled.path, pending)
                  /\ UNCHANGED mining
    /\ UNCHANGED <<initial_balance, nonce, accounts, hash_target, held, tamperedAt>>

\* (C19) create_new_block that appends a block with nonce 0 when the search
\* finds no nonce.
CreateNewBlockGivesUp ==
    /\ ~mining /\ tamperedAt = 0
    /\ Len(chain) < MaxChain
    /\ LET settled == Settle(pending)
           index == Len(chain)
           previous == chain[Len(chain)].block_hash
           unmined == [index |-> index, transactions |-> settled.transactions,
                       previous_block_hash |-> previous, hash_target |-> hash_target,
                       nonce |-> 0,
                       block_hash |-> HashOf(index, settled.transactions, previous, 0)]
       IN /\ balance' = settled.balance
          /\ chain' = Append(chain,
                 IF GoodNonces(index, settled.transactions, previous, hash_target) = {}
                 THEN unmined
                 ELSE MinedBlock(index, settled.transactions, previous, hash_target))
          /\ pending' = <<>>
          /\ last' = Call("create_new_block", settled.path, pending)
    /\ UNCHANGED <<initial_balance, nonce, accounts, hash_target, held, mining, tamperedAt>>

\* Blockchain.create_new_block
CreateNewBlock ==
    /\ ~mining /\ tamperedAt = 0
    /\ Len(chain) < MaxChain
    /\ LET settled == Settle(pending)
           index == Len(chain)
           previous == chain[Len(chain)].block_hash
       IN /\ balance' = settled.balance
          /\ IF GoodNonces(index, settled.transactions, previous, hash_target) = {}
             THEN /\ mining' = TRUE
                  /\ last' = Call("create_new_block", "never returns", pending)
                  /\ UNCHANGED <<chain, pending>>
             ELSE /\ chain' = Append(chain, MinedBlock(index, settled.transactions,
                                                      previous, hash_target))
                  /\ pending' = <<>>
                  /\ last' = Call("create_new_block", settled.path, pending)
                  /\ UNCHANGED mining
    /\ UNCHANGED <<initial_balance, nonce, accounts, hash_target, held, tamperedAt>>

\* (C14) a validation that repairs: it drops the last block of a chain it rejects.
ValidateBlockchainRepairs ==
    /\ ~mining
    /\ last' = Call("validate_blockchain", Bool(ValidateBlockchainResult), <<>>)
    /\ chain' = IF ~ValidateBlockchainResult /\ Len(chain) > 1
                THEN SubSeq(chain, 1, Len(chain) - 1) ELSE chain
    /\ UNCHANGED <<balance, initial_balance, nonce, accounts, pending,
                   hash_target, held, mining, tamperedAt>>

\* Blockchain.validate_blockchain
ValidateBlockchain ==
    /\ ~mining
    /\ last' = Call("validate_blockchain", Bool(ValidateBlockchainResult), <<>>)
    /\ UNCHANGED <<balance, initial_balance, nonce, accounts, pending, chain,
                   hash_target, held, mining, tamperedAt>>

\* A block of the chain edited in place after sealing: its transaction list, its
\* nonce or its previous_block_hash is given another value; block_hash is left
\* as stored.
OtherTransactionLists(block) ==
    IF block.transactions # <<>> THEN {<<>>} ELSE {<<t>> : t \in held}

OtherNonces(block) == (0..(HashSpace - 1)) \ {block.nonce}

OtherHashes(block) == {GenesisPrevious, block.block_hash} \ {block.previous_block_hash}

Tamper(k) ==
    /\ ~mining /\ tamperedAt = 0
    /\ \/ \E l \in OtherTransactionLists(chain[k]) :
              chain' = [chain EXCEPT ![k].transactions = l]
       \/ \E n \in OtherNonces(chain[k]) : chain' = [chain EXCEPT ![k].nonce = n]
       \/ \E h \in OtherHashes(chain[k]) :
              chain' = [chain EXCEPT ![k].previous_block_hash = h]
    /\ tamperedAt' = k
    /\ last' = Call("tamper", "None", <<>>)
    /\ UNCHANGED <<balance, initial_balance, nonce, accounts, pending, hash_target,
                   held, mining>>

\* The calls on a ledger whose hash target stays as constructed (SpecTarget
\* below sets it between the calls).
Next ==
    \/ \E a \in Accts : AddAccount(a)
    \/ \E a \in Accts : \E r \in Accts \ {a}, v \in Values : CreateTransaction(a, r, v)
    \/ AddTransaction
    \/ CreateNewBlock
    \/ ValidateBlockchain

Spec == Init /\ [][Next]_vars

\* The same ledger once every account was registered (add_account) before any
\* transaction is made.
InitRegistered ==
    /\ initial_balance \in [Accts -> 0..MaxBal]
    /\ balance = initial_balance
    /\ nonce = [a \in Accts |-> 0]
    /\ accounts = Accts
    /\ pending = <<>>
    /\ chain = <<GenesisBlock>>
    /\ hash_target = InitialTarget
    /\ held = {}
    /\ last = Call("add_account", "None", <<>>)
    /\ mining = FALSE
    /\ tamperedAt = 0

SpecRegistered == InitRegistered /\ [][Next]_vars

\* Every account registered with a balance of MaxBal.
InitFunded == InitRegistered /\ initial_balance = [a \in Accts |-> MaxBal]

\* The calls on such a ledger, every transaction made with value 1.
NextUnit ==
    \/ \E a \in Accts : \E r \in Accts \ {a} : CreateTransaction(a, r, 1)
    \/ AddTransaction
    \/ CreateNewBlock
    \/ ValidateBlockchain

\* ... with the hash target set between the calls.
NextTarget == NextUnit \/ \E t \in Targets : SetHashTarget(t)

SpecTarget == InitFunded /\ [][NextTarget]_vars

\* ... and with add_account called again for the accounts.
NextEveryCall == NextTarget \/ \E a \in Accts : AddAccount(a)

SpecEveryCall == InitFunded /\ [][NextEveryCall]_vars

\* Admission alone, by callers that also submit transactions changed after
\* signing (every account funded with MaxBal, none registered at first).
InitUnregistered == Init /\ initial_balance = [a \in Accts |-> MaxBal]

NextForge ==
    \/ \E a \in Accts : AddAccount(a)
    \/ \E a \in Accts : \E r \in Accts \ {a}, v \in Values : CreateTransaction(a, r, v)
    \/ AddTransaction
    \/ AddForged

SpecForge == InitUnregistered /\ [][NextForge]_vars

\* create_transaction accepts any number as the value: the callers that also
\* pass zero and negative values.
NonPositiveValues == {1 - v : v \in Values}

NextAnyValue ==
    \/ \E a \in Accts : \E r \in Accts \ {a}, v \in {1} \cup NonPositiveValues :
          CreateTransaction(a, r, v)
    \/ AddTransaction
    \/ CreateNewBlock

SpecAnyValue == InitFunded /\ [][NextAnyValue]_vars

\* A pool of MaxBatch transactions: the accounts, all registered, made them one
\* after the other (the k-th of an account carries nonce k) and add_transaction
\* admitted each once, in that order.  shape[i] is the sender and the value of
\* the i-th one; the receiver is the other account.
Shapes == [1..MaxBatch -> Accts \X Values]

Other(a) == CHOOSE r \in Accts \ {a} : TRUE

BatchOf(shape) ==
    [i \in 1..MaxBatch |->
        LET a == shape[i][1]
        IN SignedBy(a, [sender |-> a, receiver |-> Other(a), value |-> shape[i][2],
                        tx_metadata |-> "",
                        nonce |-> Cardinality({j \in 1..i : shape[j][1] = a})])]

InitBatch ==
    /\ initial_balance \in [Accts -> 0..MaxBal]
    /\ balance = initial_balance
    /\ accounts = Accts
    /\ \E shape \in Shapes :
          /\ pending = BatchOf(shape)
          /\ nonce = [a \in Accts |-> Cardinality({j \in 1..MaxBatch : shape[j][1] = a})]
    /\ held = {pending[i] : i \in 1..MaxBatch}
    /\ last = Call("add_transaction", "True", <<pending[MaxBatch]>>)
    /\ chain = <<GenesisBlock>>
    /\ hash_target = InitialTarget
    /\ mining = FALSE
    /\ tamperedAt = 0

NextBatch == CreateNewBlock \/ ValidateBlockchain

SpecBatch == InitBatch /\ [][NextBatch]_vars

\* ... and a chain that is edited in place after sealing.
NextTamper == NextUnit \/ \E k \in 1..Len(chain) : Tamper(k)

SpecTamper == InitFunded /\ [][NextTamper]_vars

\* ================================================================= claims
\* The transactions of the chain, block after block.
RECURSIVE ChainTransactions(_)
ChainTransactions(blocks) ==
    IF blocks = <<>> THEN <<>>
    ELSE blocks[1].transactions \o ChainTransactions(Tail(blocks))

Returned == {"all", "valid"}   \* create_new_block returned, on either path

\* No transaction was admitted twice: the pool and the chain hold each
\* transaction once.
SubmittedOnce ==
    LET admitted == ChainTransactions(chain) \o pending
    IN \A i, j \in 1..Len(admitted) : admitted[i] = admitted[j] => i = j

\* C1: in every state reached by create_transaction, add_transaction and
\* create_new_block calls, no registered account's live balance is negative
\* (stated for callers that submit each transaction once, the case of one
\* sender with several pending transactions of its own).
NoNegativeBalance == SubmittedOnce => \A a \in accounts : balance[a] >= 0

\* C2: on a ledger whose accounts were all registered before use, the balance
\* pass of validate_blockchain succeeds whenever validate_blockchain is called
\* (stated for callers that submit each transaction once).
BalancePassAccepts ==
    (last.op = "validate_blockchain" /\ SubmittedOnce) => ValidateCompleteAccountBalances

\* C3: no two transactions included in the chain carry the same (sender, nonce).
SettledAtMostOnce ==
    LET included == ChainTransactions(chain)
    IN \A i, j \in 1..Len(included) :
          (/\ included[i].message.sender = included[j].message.sender
           /\ included[i].message.nonce = included[j].message.nonce) => i = j

\* C4: add_transaction given a transaction whose sender is not registered
\* returns False (it does not raise).
UnknownSenderReturnsFalse ==
    (/\ last.op = "add_transaction"
     /\ last.arg[1].message.sender \notin accounts) => last.ret = "False"

\* C5: every add_transaction call either returns True and appends the given
\* transaction to the end of the pending pool, or returns False and leaves the
\* pool as it was; chain, balances and hash target are unchanged either way.
AdmissionDichotomy ==
    [][last'.op = "add_transaction" =>
          /\ \/ last'.ret = "True" /\ pending' = Append(pending, last'.arg[1])
             \/ last'.ret = "False" /\ pending' = pending
          /\ UNCHANGED <<chain, balance, hash_target>>]_vars

\* C6: add_transaction admits a transaction exactly when it is one that
\* create_transaction of a registered account returned, unchanged.
AdmitsExactlyAsSigned ==
    last.op = "add_transaction" =>
        (last.ret = "True" <=>
            (last.arg[1] \in held /\ last.arg[1].message.sender \in accounts))

\* C7: the k-th create_transaction of an account returns nonce k, whatever
\* happened to its earlier transactions, and no other call changes a nonce.
CreatedBy(a) == {t \in held : t.message.sender = a}

NonceMonotone ==
    /\ [](\A a \in Accts :
            /\ {t.message.nonce : t \in CreatedBy(a)} = 1..nonce[a]
            /\ Cardinality(CreatedBy(a)) = nonce[a])
    /\ [][IF last'.op = "create_transaction"
          THEN LET t == last'.arg[1]
                   a == t.message.sender
               IN /\ t.message.nonce = nonce[a] + 1
                  /\ nonce' = [nonce EXCEPT ![a] = nonce[a] + 1]
          ELSE nonce' = nonce]_vars

\* C7 witness: an account's second transaction is sealed while its first one is
\* in no block.
NonceWitness ==
    \E a \in Accts :
        /\ nonce[a] = 2
        /\ last.op = "create_new_block"
        /\ \E t \in CreatedBy(a) :
              /\ t.message.nonce = 1
              /\ \A k \in 1..Len(chain) : \A i \in 1..Len(chain[k].transactions) :
                    chain[k].transactions[i] # t
        /\ \E i \in 1..Len(chain[Len(chain)].transactions) :
              /\ chain[Len(chain)].transactions[i].message.sender = a
              /\ chain[Len(chain)].transactions[i].message.nonce = 2

\* C8: create_new_block drops every pending transaction whose value exceeds the
\* sender's live balance: the new block holds none of them, and the block and
\* the balances are those the batch without these transactions gives.
Underfunded(t) ==
    t.message.sender \in accounts /\ balance[t.message.sender] < t.message.value

Funded(t) == ~Underfunded(t)

UnderfundedDropped ==
    [][(last'.op = "create_new_block" /\ last'.ret \in Returned) =>
          LET block == chain'[Len(chain')]
              rest == Settle(SelectSeq(pending, Funded))
          IN /\ \A i \in 1..Len(block.transactions) : Funded(block.transactions[i])
             /\ block.transactions = rest.transactions
             /\ balance' = rest.balance]_vars

\* C8 witness: after a block that settled a transfer, its receiver sends back
\* more than it owns; the transaction is admitted and the block sealed is empty.
UnderfundedWitness ==
    /\ last.op = "create_new_block"
    /\ Len(last.arg) = 1
    /\ Len(chain) = 3
    /\ Len(chain[2].transactions) = 1
    /\ chain[2].transactions[1].message.receiver = last.arg[1].message.sender
    /\ {last.arg[1].message.sender, last.arg[1].message.receiver} \subseteq accounts
    /\ last.arg[1].message.value > balance[last.arg[1].message.sender]
    /\ chain[3].transactions = <<>>
    /\ balance[last.arg[1].message.sender] >= 0

\* C9: create_new_block seals the whole pending batch and commits all its
\* deltas whenever all parties are registered and every account whose net
\* delta over the batch is negative has a balance covering it (stated for the
\* batches that, applied in pending order with the funds received counted, never
\* take a sender below zero).
RECURSIVE NetDelta(_, _)
NetDelta(transactions, a) ==
    IF transactions = <<>> THEN 0
    ELSE LET m == transactions[1].message
         IN (IF m.receiver = a THEN m.value ELSE 0)
            - (IF m.sender = a THEN m.value ELSE 0)
            + NetDelta(Tail(transactions), a)

NetCoveredSealsAll ==
    [][(/\ last'.op = "create_new_block" /\ last'.ret \in Returned
        /\ \A i \in 1..Len(pending) :
              {pending[i].message.sender, pending[i].message.receiver} \subseteq accounts
        /\ \A a \in Accts :
              NetDelta(pending, a) < 0 => balance[a] >= -NetDelta(pending, a)
        /\ ReplayLoop(Messages(pending), 1, balance))
       => /\ chain'[Len(chain')].transactions = pending
          /\ balance' = [a \in Accts |-> balance[a] + NetDelta(pending, a)]]_vars

SealsOneBlock ==
    [][(last'.op = "create_new_block" /\ last'.ret \in Returned) =>
          /\ Len(chain') = Len(chain) + 1
          /\ SubSeq(chain', 1, Len(chain)) = chain
          /\ pending' = <<>>
          /\ \A i \in 1..Len(chain'[Len(chain')].transactions) :
                \E j \in 1..Len(pending) :
                    chain'[Len(chain')].transactions[i] = pending[j]
          /\ pending = <<>> =>
                /\ chain'[Len(chain')].transactions = <<>>
                /\ balance' = balance]_vars

\* C11 witness: the fallback path sealed one of two pending transactions and
\* the pool is empty.
SealsOneBlockWitness ==
    /\ last.op = "create_new_block"
    /\ last.ret = "valid"
    /\ Len(last.arg) = 2
    /\ Len(chain[Len(chain)].transactions) = 1
    /\ pending = <<>>

\* C12: a transaction whose value is zero or negative is rejected by the ledger:
\* no block sealed by create_new_block holds one, and a pool of such
\* transactions changes no balance.
NonPositiveRejected ==
    [][(last'.op = "create_new_block" /\ last'.ret \in Returned) =>
          /\ \A i \in 1..Len(chain'[Len(chain')].transactions) :
                chain'[Len(chain')].transactions[i].message.value > 0
          /\ (\A j \in 1..Len(pending) : pending[j].message.value <= 0)
                => balance' = balance]_vars

\* C13: every non-genesis block of a chain that was not edited stores the hash
\* target the ledger had when create_new_block sealed it, its block_hash is
\* hash_block() of its fields and is, as an integer, strictly less than the
\* stored target; setting the ledger's hash_target changes no block, so the
\* hash-link pass and the proof-of-work pass succeed whatever targets were set
\* between the calls.
StoredTargetHolds ==
    /\ [](/\ \A k \in 2..Len(chain) :
                /\ chain[k].hash_target \in Targets
                /\ chain[k].block_hash = hash_block(chain[k])
                /\ HashInt(chain[k].block_hash) < chain[k].hash_target
          /\ ValidateChainHashIntegrity
          /\ ValidateBlockHashTarget)
    /\ [][/\ (last'.op = "create_new_block" /\ last'.ret \in Returned) =>
                chain'[Len(chain')].hash_target = hash_target
          /\ last'.op = "hash_target" => chain' = chain]_vars

\* C13 witness: two blocks sealed under different targets validate after the
\* ledger's target was set to one that no hash satisfies.
StoredTargetWitness ==
    /\ last.op = "validate_blockchain"
    /\ last.ret = "True"
    /\ Len(chain) = 3
    /\ chain[2].hash_target # chain[3].hash_target
    /\ hash_target = 0

\* C14: validate_blockchain changes no state (chain, pending pool, balances,
\* nonces, hash target, registry), and a second call right after the first
\* returns what the first returned.
ValidationReadsOnly ==
    [][last'.op = "validate_blockchain" =>
          /\ UNCHANGED <<chain, pending, balance, initial_balance, nonce,
                         hash_target, accounts>>
          /\ last.op = "validate_blockchain" => last'.ret = last.ret]_vars

\* C14 witness: validate_blockchain rejected a chain whose second block was
\* edited; the chain still holds its three blocks and the pool its transaction.
ValidationWitness ==
    /\ last.op = "validate_blockchain"
    /\ last.ret = "False"
    /\ tamperedAt = 2
    /\ Len(chain) = 3
    /\ pending # <<>>

\* C15: on the fallback path of create_new_block the block holds transactions
\* of the pool in pending order, and each of them keeps its sender's running
\* net delta (over the block up to and including it) within the sender's live
\* balance: a transaction that would exceed it is dropped.
RECURSIVE IsSubsequence(_, _)
IsSubsequence(s, t) ==
    IF s = <<>> THEN TRUE
    ELSE IF t = <<>> THEN FALSE
    ELSE IF s[1] = t[1] THEN IsSubsequence(Tail(s), Tail(t))
    ELSE IsSubsequence(s, Tail(t))

FallbackWithinBalance ==
    [][(last'.op = "create_new_block" /\ last'.ret = "valid") =>
          LET sealed == chain'[Len(chain')].transactions
          IN /\ IsSubsequence(sealed, pending)
             /\ \A k \in 1..Len(sealed) :
                   LET sender == sealed[k].message.sender
                   IN -NetDelta(SubSeq(sealed, 1, k), sender) <= balance[sender]]_vars

\* C16: the all-or-nothing attempt of create_new_block is atomic.  When it
\* succeeds the fallback is not run: the block holds the whole pool in pending
\* order and every balance moves by its net delta over the pool.  When it fails
\* it has changed no balance: block and balances are those the fallback gives
\* from the balances before the call.
AllOrNothingAtomic ==
    [][(last'.op = "create_new_block" /\ last'.ret \in Returned) =>
          LET sealed == chain'[Len(chain')].transactions
              slow == ProcessValidTransactions(pending)
          IN IF ProcessTransactions(pending).ok
             THEN /\ last'.ret = "all"
                  /\ sealed = pending
                  /\ balance' = [a \in Accts |-> balance[a] + NetDelta(pending, a)]
             ELSE /\ last'.ret = "valid"
                  /\ sealed = slow.valid
                  /\ balance' = Commit(slow.dict)]_vars

\* C16 witness: the attempt accepted the first of two pending transactions and
\* failed on the second; the fallback sealed the first one alone.
AllOrNothingWitness ==
    /\ last.op = "create_new_block"
    /\ last.ret = "valid"
    /\ Len(last.arg) = 2
    /\ chain[Len(chain)].transactions = <<last.arg[1]>>
    /\ last.arg[1].message.sender = last.arg[2].message.receiver

\* C17: the chain is append-only and well linked in every reachable state:
\* its first block is the genesis block made at initialization, the block at
\* position i (from 0) has index i, every later block's previous_block_hash is
\* the block_hash of the block before it; no call removes, reorders or changes
\* a block, and only create_new_block adds one.
ChainAppendOnly ==
    /\ [](/\ chain[1] = GenesisBlock
          /\ \A k \in 1..Len(chain) : chain[k].index = k - 1
          /\ \A k \in 2..Len(chain) :
                chain[k].previous_block_hash = chain[k - 1].block_hash)
    /\ [][/\ Len(chain') >= Len(chain)
          /\ SubSeq(chain', 1, Len(chain)) = chain
          /\ last'.op # "create_new_block" => chain' = chain]_vars

\* C17 witness: a chain of three blocks, the second one with a transaction,
\* after the hash target was set to another value than the last block's.
ChainAppendOnlyWitness ==
    /\ Len(chain) = 3
    /\ chain[2].transactions # <<>>
    /\ last.op = "hash_target"
    /\ chain[3].hash_target # hash_target

\* C18: the balance pass of validate_blockchain returns False exactly when the
\* replay of the chain from the initial balances of the registered accounts,
\* in ascending (block index, transaction nonce) order (equal nonces of one
\* block in block order), takes some sender below zero at its own debit; the
\* live balances play no part.
Entries ==
    {e \in (1..Len(chain)) \X (1..MaxBatch) : e[2] <= Len(chain[e[1]].transactions)}

MessageAt(e) == chain[e[1]].transactions[e[2]].message

NotAfter(e, f) ==
    \/ chain[e[1]].index < chain[f[1]].index
    \/ /\ e[1] = f[1]
       /\ \/ MessageAt(e).nonce < MessageAt(f).nonce
          \/ MessageAt(e).nonce = MessageAt(f).nonce /\ e[2] <= f[2]

RECURSIVE SumOf(_, _)
SumOf(S, a) ==
    IF S = {} THEN 0
    ELSE LET e == CHOOSE x \in S : TRUE
             m == MessageAt(e)
         IN (IF m.receiver = a THEN m.value ELSE 0)
            - (IF m.sender = a THEN m.value ELSE 0)
            + SumOf(S \ {e}, a)

RunningBalance(a, f) ==
    (IF a \in accounts THEN initial_balance[a] ELSE 0)
    + SumOf({e \in Entries : NotAfter(e, f)}, a)

BalancePassExact ==
    last.op = "validate_blockchain" =>
        (ValidateCompleteAccountBalances
            <=> \A f \in Entries : RunningBalance(MessageAt(f).sender, f) >= 0)

\* C18 witness: the pass rejected a block that holds an account's second
\* transaction before its first (the replay takes them in nonce order), the
\* live balances being other than the initial ones.
BalancePassWitness ==
    /\ last.op = "validate_blockchain"
    /\ Len(chain) >= 2
    /\ Len(chain[2].transactions) = 2
    /\ chain[2].transactions[1].message.nonce = 2
    /\ chain[2].transactions[2].message.nonce = 1
    /\ chain[2].transactions[1].message.sender = chain[2].transactions[2].message.sender
    /\ ~ValidateCompleteAccountBalances
    /\ balance # initial_balance

\* C19: mining a non-genesis block keeps the least nonce, counted up from 0,
\* whose block hash is as an integer strictly less than the hash target (a
\* hash equal to the target is passed over); when no nonce has such a hash the
\* search does not end: create_new_block never returns, appends no block, and
\* no later call is made.
MiningLeastNonce ==
    /\ [][last'.op = "create_new_block" =>
            LET index == Len(chain)
                previous == chain[Len(chain)].block_hash
                block == chain'[Len(chain')]
                Hash(n) == HashInt(HashOf(index, Settle(pending).transactions, previous, n))
            IN IF last'.ret \in Returned
               THEN /\ chain' = Append(chain, block)
                    /\ block.nonce \in Nat
                    /\ block.block_hash = hash_block(block)
                    /\ HashInt(block.block_hash) < hash_target
                    /\ \A n \in 0..(block.nonce - 1) : Hash(n) >= hash_target
                    /\ ~mining'
               ELSE /\ last'.ret = "never returns"
                    /\ \A n \in 0..(HashSpace - 1) : Hash(n) >= hash_target
                    /\ chain' = chain
                    /\ mining']_vars
    /\ [][~mining]_vars

\* C19 witness: the block at index 1 was mined with nonce 1 because the hash
\* of nonce 0 equals the target, and a later create_new_block, under a target
\* that no hash is below, never returned.
MiningWitness ==
    /\ mining
    /\ last.ret = "never returns"
    /\ Len(chain) = 2
    /\ chain[2].nonce = 1
    /\ HashInt(HashOf(1, chain[2].transactions, chain[2].previous_block_hash, 0))
          = chain[2].hash_target

\* C20: the live balances agree with the chain in every reachable state of a
\* ledger whose accounts were each registered once, before use: the balance of
\* an account is its initial balance plus the values of the chain transactions
\* it received minus the values of those it sent.
BalancesMatchChain ==
    \A a \in accounts :
        balance[a] = initial_balance[a] + NetDelta(ChainTransactions(chain), a)

\* C21: value is conserved: every create_new_block call, on the all-or-nothing
\* path and on the fallback path, leaves the sum of the live balances of the
\* registered accounts as it was, and no other call (create_transaction,
\* add_transaction, validate_blockchain) changes it.
RECURSIVE TotalBalance(_, _)
TotalBalance(ids, b) ==
    IF ids = {} THEN 0
    ELSE LET a == CHOOSE x \in ids : TRUE
         IN b[a] + TotalBalance(ids \ {a}, b)

ValueConserved ==
    [][TotalBalance(accounts', balance') = TotalBalance(accounts, balance)]_vars
====
